---- MODULE Spec2Model ----
(***************************************************************************)
(* A model of the web3_workshop single-page application:                   *)
(*   - lib/web3 (the Wallet Bridge): checkMetaMask, connectWallet,         *)
(*     getBalance, getUSDCBalance, formatAddress;                          *)
(*   - App (the Session Shell): startup restore, handleLoginSuccess,       *)
(*     handleLogout, and the choice of the rendered view;                  *)
(*   - LoginPage: handleSignInWithMetaMask;                                *)
(*   - HomePage: the two balance effects.                                  *)
(* Every await of the code is a step boundary: the part of a handler that  *)
(* runs before the await is one action, its continuation another. A        *)
(* handler awaits a promise of lib/web3, which itself awaits the provider:  *)
(* the library function's continuation settles the promise in one step,    *)
(* the handler's continuation runs in a later one, and other callbacks run  *)
(* in between.                                                             *)
(***************************************************************************)
EXTENDS Integers, Sequences, FiniteSets, TLC

VARIABLES
    ethereum,        \* window.ethereum: "undefined" or "provider"
    localStorage,    \* the value of localStorage's 'userAddress' key, optional
    started,         \* App's mount effect has run
    isLoggedIn,      \* App state
    userAddress,     \* App state, optional string
    isConnecting,    \* LoginPage state
    loginError,      \* LoginPage state `error`, optional string
    connectPromise,  \* the connectWallet() promise LoginPage's handler awaits
    inFlight,        \* the connect requests of LoginPage's handler the provider has yet to answer
    connectAnswer,   \* the answer that settled connectPromise, until the handler resumes
    cw,              \* a connectWallet() promise held by a direct caller of lib/web3
    homeMounted,     \* HomePage's mount effects have run
    home,            \* HomePage state: balance, usdcBalance, the loading and error flags
    ethFetch,        \* the getBalance() promise fetchBalance awaits
    usdcFetch,       \* the getUSDCBalance() promise fetchUSDCBalance awaits
    obs,             \* what the latest step did: provider interactions, answer consumed
    lastSessionOp,   \* the latest of handleLoginSuccess / handleLogout run over this store
    fmt              \* formatAddress applied to an input, and to its own output

vars == <<ethereum, localStorage, started, isLoggedIn, userAddress, isConnecting,
          loginError, connectPromise, inFlight, connectAnswer, cw, homeMounted, home, ethFetch, usdcFetch,
          obs, lastSessionOp, fmt>>

appVars == <<started, isLoggedIn, userAddress>>
loginVars == <<isConnecting, loginError, connectPromise, inFlight, connectAnswer>>
homeVars == <<homeMounted, home, ethFetch, usdcFetch>>

(***************************************************************************)
(* Bounds of the model.                                                    *)
(***************************************************************************)
\* the longest account list the provider answers with
MaxAccounts == 2
\* the longest input string formatAddress is applied to
MaxLen == 11
\* the most connect requests of the login view counted as outstanding at once
MaxInFlight == 2

(***************************************************************************)
(* Optional values (string | null): <<>> is null, <<s>> is the value s.    *)
(***************************************************************************)
Null == <<>>
Some(s) == <<s>>
\* JavaScript truthiness of a string | null: neither null nor the empty string
Truthy(o) == o # Null /\ o[1] # ""

(***************************************************************************)
(* Values the environment supplies.                                        *)
(***************************************************************************)
ProviderStates == {"undefined", "provider"}
Addr1 == "0x1234567890abcdef1234567890abcdef12345678"
Addr2 == "0xabcdefabcdefabcdefabcdefabcdefabcdefabcd"
\* the strings a provider can put in an account list, the empty string included
Addresses == {"", Addr1, Addr2}
\* what a previous session can have persisted before this page was loaded
PersistedAddresses == {Addr1, Addr2}

RECURSIVE ListsOfLen(_)
ListsOfLen(n) ==
    IF n = 0 THEN { <<>> }
    ELSE { Append(l, a) : l \in ListsOfLen(n - 1), a \in Addresses }
AccountLists == UNION { ListsOfLen(n) : n \in 0..MaxAccounts }

\* messages of the code
MsgInstallLogin == "MetaMask is not installed. Please install the MetaMask extension to continue."
MsgInstallConnect == "MetaMask is not installed. Please install MetaMask extension."
MsgNoAccounts == "No accounts found. Please connect MetaMask."
ConnectPrefix == "Failed to connect wallet: "
MsgConnectFallback == "Failed to connect wallet"
MsgNotInstalled == "MetaMask is not installed."
BalancePrefix == "Failed to fetch balance: "
MsgBalanceFallback == "Failed to fetch balance"
UsdcPrefix == "Failed to fetch USDC balance: "
MsgUsdcFallback == "Failed to fetch USDC balance"

\* messages a provider fault can carry
MsgUserRejected == "User rejected the request."
FaultMsgs == {MsgUserRejected, MsgNoAccounts}
\* a thrown value: an Error instance or another value (a plain object), with its message
ErrorOf(m) == [isError |-> TRUE, message |-> m]
Faults == [isError : BOOLEAN, message : FaultMsgs]

\* what the provider (or the RPC library over it) answers a request with
Response(k, l, r, f) == [kind |-> k, accounts |-> l, raw |-> r, fault |-> f]
AccountsAnswer(l) == Response("accounts", l, 0, <<>>)
NullAnswer == Response("null", <<>>, 0, <<>>)
ValueAnswer(r) == Response("value", <<>>, r, <<>>)
FaultAnswer(e) == Response("fault", <<>>, 0, <<e>>)
ConnectResponses ==
    { AccountsAnswer(l) : l \in AccountLists } \cup {NullAnswer}
        \cup { FaultAnswer(e) : e \in Faults }

(***************************************************************************)
(* Promises: idle (none outstanding), pending (suspended at the provider   *)
(* request), resolved with a value, rejected with a thrown value.          *)
(***************************************************************************)
Idle == [state |-> "idle", value |-> <<>>, thrown |-> <<>>]
Pending == [state |-> "pending", value |-> <<>>, thrown |-> <<>>]
Resolved(v) == [state |-> "resolved", value |-> <<v>>, thrown |-> <<>>]
Rejected(e) == [state |-> "rejected", value |-> <<>>, thrown |-> <<e>>]

\* the observation of a step
Obs(op, checks, requests, answer, login) ==
    [op |-> op, checks |-> checks, requests |-> requests, answer |-> answer,
     onLoginSuccess |-> login]

(***************************************************************************)
(* lib/web3                                                                *)
(***************************************************************************)
checkMetaMask(eth) == eth # "undefined"

\* connectWallet without its presence check
connectWalletBegin_NoCheck(eth) == Pending

\* connectWallet up to its await: the presence check, then the request
connectWalletBegin(eth) ==
    IF ~checkMetaMask(eth) THEN Rejected(ErrorOf(MsgInstallConnect)) ELSE Pending

\* the number of provider requests connectWallet issues before it suspends
connectWalletRequests(eth) == IF connectWalletBegin(eth).state = "pending" THEN 1 ELSE 0

\* the try block returning the last account of the list
connectWalletTry_Last(resp) ==
    IF resp.kind = "fault" THEN Rejected(resp.fault[1])
    ELSE IF resp.kind = "null" \/ Len(resp.accounts) = 0
         THEN Rejected(ErrorOf(MsgNoAccounts))
         ELSE Resolved(resp.accounts[Len(resp.accounts)])

\* the body of connectWallet's try block once the request is answered
connectWalletTry(resp) ==
    IF resp.kind = "fault" THEN Rejected(resp.fault[1])
    ELSE IF resp.kind = "null" \/ Len(resp.accounts) = 0
         THEN Rejected(ErrorOf(MsgNoAccounts))
         ELSE Resolved(resp.accounts[1])

\* connectWallet from the answer on: the try block, then its catch
connectWalletSettle(resp) ==
    LET r == connectWalletTry(resp) IN
    IF r.state = "rejected"
    THEN IF r.thrown[1].isError
         THEN Rejected(ErrorOf(ConnectPrefix \o r.thrown[1].message))
         ELSE r
    ELSE r

\* formatAddress keeping the last three characters
formatAddress_Suffix3(address) ==
    IF address = "" \/ Len(address) < 10 THEN address
    ELSE SubSeq(address, 1, 6) \o "..." \o SubSeq(address, Len(address) - 2, Len(address))

formatAddress(address) ==
    IF address = "" \/ Len(address) < 10 THEN address
    ELSE SubSeq(address, 1, 6) \o "..." \o SubSeq(address, Len(address) - 3, Len(address))

\* two and three decimal digits, zero padded
Pad2(n) == IF n < 10 THEN "0" \o ToString(n) ELSE ToString(n)
Pad3(n) == IF n < 100 THEN "0" \o Pad2(n) ELSE ToString(n)

\* ethers' formatEther on a balance given in units of 10^15 wei (the model's
\* integers are 32 bits wide): the whole part, a point, and the fraction with its
\* trailing zeros dropped but for one digit
formatEther(finney) ==
    LET whole == finney \div 1000
        frac == finney % 1000
        digits == IF frac = 0 THEN "0"
                  ELSE IF frac % 100 = 0 THEN ToString(frac \div 100)
                  ELSE IF frac % 10 = 0 THEN Pad2(frac \div 10)
                  ELSE Pad3(frac)
    IN ToString(whole) \o "." \o digits

\* (r * 2^n) mod 10^6
RECURSIVE DoubledMod(_, _)
DoubledMod(r, n) ==
    IF n = 0 THEN r
    ELSE IF n >= 10 THEN DoubledMod((1024 * r) % 1000000, n - 10)
    ELSE DoubledMod((2 * r) % 1000000, n - 1)

\* the binary exponent k of raw / 10^6 for raw > 0: 2^k <= raw / 10^6 < 2^(k+1)
RECURSIVE BinaryExponent(_, _)
BinaryExponent(v, k) ==
    IF v < 1000000 THEN BinaryExponent(2 * v, k - 1)
    ELSE IF v \div 2 >= 1000000 THEN BinaryExponent(v \div 2, k + 1)
    ELSE k

\* the double Number(raw) / 1_000_000 lies below the quotient raw / 10^6: the
\* division rounds to 53 significant bits, and rounds down when what is left of
\* raw * 2^(52 - k) after division by 10^6 is less than half of 10^6 (it is never
\* exactly half: a quotient with so short a binary expansion is a double)
usdcDoubleBelow(raw) ==
    /\ raw > 0
    /\ LET rest == DoubledMod(raw % 1000000, 52 - BinaryExponent(raw, 0))
       IN rest > 0 /\ rest < 500000

\* (Number(balance) / 1_000_000).toFixed(2) on a raw USDC amount (6 decimals):
\* the number of cents nearest to the double, the larger one when the double is
\* midway; the double is nearer to raw / 10^6 than raw / 10^6 is to any midpoint
\* it is not on, so only an amount midway between two cents can go either way
usdcToFixed(raw) ==
    LET whole == raw \div 10000
        part == raw % 10000
        cents == IF part > 5000 \/ (part = 5000 /\ ~usdcDoubleBelow(raw))
                 THEN whole + 1 ELSE whole
    IN ToString(cents \div 100) \o "." \o Pad2(cents % 100)

\* balances the chain can report: native ones in units of 10^15 wei, USDC ones raw;
\* of the USDC amounts midway between two cents, 1.005 and 0.015 have a double
\* below them, 0.025 one above it, and 0.125 is a double
EthRaws == {0, 1000, 1500}
UsdcRaws == {0, 1500000, 1234567, 1005000, 15000, 25000, 125000}
MsgNetwork == "could not detect network"
BalanceFaults == [isError : BOOLEAN, message : {MsgNetwork}]
EthResponses == { ValueAnswer(r) : r \in EthRaws } \cup { FaultAnswer(e) : e \in BalanceFaults }
UsdcResponses == { ValueAnswer(r) : r \in UsdcRaws } \cup { FaultAnswer(e) : e \in BalanceFaults }

\* getBalance up to its await
getBalanceBegin(eth) ==
    IF ~checkMetaMask(eth) THEN Rejected(ErrorOf(MsgNotInstalled)) ELSE Pending

\* getBalance from the answer on
getBalanceSettle(resp) ==
    IF resp.kind = "fault"
    THEN IF resp.fault[1].isError
         THEN Rejected(ErrorOf(BalancePrefix \o resp.fault[1].message))
         ELSE Rejected(resp.fault[1])
    ELSE Resolved(formatEther(resp.raw))

\* getUSDCBalance up to its await
getUSDCBalanceBegin(eth) ==
    IF ~checkMetaMask(eth) THEN Rejected(ErrorOf(MsgNotInstalled)) ELSE Pending

\* getUSDCBalance from the answer on
getUSDCBalanceSettle(resp) ==
    IF resp.kind = "fault"
    THEN IF resp.fault[1].isError
         THEN Rejected(ErrorOf(UsdcPrefix \o resp.fault[1].message))
         ELSE Rejected(resp.fault[1])
    ELSE Resolved(usdcToFixed(resp.raw))

\* a promise is settled: the function behind it has returned or thrown
Settled(p) == p.state \in {"resolved", "rejected"}

(***************************************************************************)
(* App                                                                     *)
(***************************************************************************)
\* the mount effect asking the wallet before it restores the session
startupEffect_Revalidate(savedAddress) ==
    IF Truthy(savedAddress) /\ checkMetaMask(ethereum)
    THEN [isLoggedIn |-> TRUE, userAddress |-> savedAddress, checks |-> 1, requests |-> 1]
    ELSE [isLoggedIn |-> FALSE, userAddress |-> Null, checks |-> 1, requests |-> 0]

\* the mount effect, on the freshly constructed state (false, null), with the
\* number of presence checks and provider requests it makes
startupEffect(savedAddress) ==
    IF Truthy(savedAddress)
    THEN [isLoggedIn |-> TRUE, userAddress |-> savedAddress, checks |-> 0, requests |-> 0]
    ELSE [isLoggedIn |-> FALSE, userAddress |-> Null, checks |-> 0, requests |-> 0]

handleLoginSuccess(address) ==
    [isLoggedIn |-> TRUE, userAddress |-> Some(address), stored |-> Some(address)]

\* handleLogout leaving the persisted key in place
handleLogout_KeepStored ==
    [isLoggedIn |-> FALSE, userAddress |-> Null, stored |-> localStorage]

handleLogout ==
    [isLoggedIn |-> FALSE, userAddress |-> Null, stored |-> Null]

\* what App renders: LoginPage, HomePage or nothing
View ==
    IF ~isLoggedIn THEN "login"
    ELSE IF Truthy(userAddress) THEN "home"
    ELSE "none"

(***************************************************************************)
(* LoginPage                                                               *)
(***************************************************************************)
\* handleSignInWithMetaMask up to its await
signInBegin(eth, connecting) ==
    IF ~checkMetaMask(eth)
    THEN [isConnecting |-> connecting, error |-> Some(MsgInstallLogin),
          promise |-> Idle, checks |-> 1, requests |-> 0]
    ELSE [isConnecting |-> TRUE, error |-> Null,
          promise |-> connectWalletBegin(eth), checks |-> 2,
          requests |-> connectWalletRequests(eth)]

\* the catch block's message
signInCatch(err) == IF err.isError THEN err.message ELSE MsgConnectFallback

\* the sign-in button's disabled attribute
signInDisabled_Never(connecting) == FALSE

signInDisabled(connecting) == connecting

\* the handler without its finally block
signInSettle_NoFinally(out, error) ==
    IF out.state = "resolved"
    THEN [onLoginSuccess |-> Some(out.value[1]), error |-> error, isConnecting |-> isConnecting]
    ELSE [onLoginSuccess |-> Null, error |-> Some(signInCatch(out.thrown[1])),
          isConnecting |-> isConnecting]

\* the handler calling onLoginSuccess after the try statement, whatever happened
signInSettle_CallsAnyway(out, error) ==
    IF out.state = "resolved"
    THEN [onLoginSuccess |-> Some(out.value[1]), error |-> error, isConnecting |-> FALSE]
    ELSE [onLoginSuccess |-> Some(""), error |-> Some(signInCatch(out.thrown[1])),
          isConnecting |-> FALSE]

\* handleSignInWithMetaMask after its await: the argument onLoginSuccess is
\* called with (none when connectWallet threw), the error state, the finally block
signInSettle(out, error) ==
    IF out.state = "resolved"
    THEN [onLoginSuccess |-> Some(out.value[1]), error |-> error, isConnecting |-> FALSE]
    ELSE [onLoginSuccess |-> Null, error |-> Some(signInCatch(out.thrown[1])),
          isConnecting |-> FALSE]

(***************************************************************************)
(* HomePage                                                                *)
(***************************************************************************)
HomeInitial ==
    [balance |-> Null, usdcBalance |-> Null, isLoadingBalance |-> TRUE,
     isLoadingUsdc |-> TRUE, error |-> Null, usdcError |-> Null]

fetchBalanceBegin(h) == [h EXCEPT !.isLoadingBalance = TRUE, !.error = Null]

\* fetchBalance's catch block writing one error state shared by both cards
fetchBalanceSettle_SharedError(h, out) ==
    IF out.state = "resolved"
    THEN [h EXCEPT !.balance = Some(out.value[1]), !.isLoadingBalance = FALSE]
    ELSE [h EXCEPT !.error = Some(IF out.thrown[1].isError THEN out.thrown[1].message
                                  ELSE MsgBalanceFallback),
                   !.usdcError = Some(IF out.thrown[1].isError THEN out.thrown[1].message
                                      ELSE MsgBalanceFallback),
                   !.isLoadingBalance = FALSE]

fetchBalanceSettle(h, out) ==
    IF out.state = "resolved"
    THEN [h EXCEPT !.balance = Some(out.value[1]), !.isLoadingBalance = FALSE]
    ELSE [h EXCEPT !.error = Some(IF out.thrown[1].isError THEN out.thrown[1].message
                                  ELSE MsgBalanceFallback),
                   !.isLoadingBalance = FALSE]

fetchUSDCBalanceBegin(h) == [h EXCEPT !.isLoadingUsdc = TRUE, !.usdcError = Null]

fetchUSDCBalanceSettle(h, out) ==
    IF out.state = "resolved"
    THEN [h EXCEPT !.usdcBalance = Some(out.value[1]), !.isLoadingUsdc = FALSE]
    ELSE [h EXCEPT !.usdcError = Some(IF out.thrown[1].isError THEN out.thrown[1].message
                                      ELSE MsgUsdcFallback),
                   !.isLoadingUsdc = FALSE]

\* the address as the dashboard shows it
displayAddress == IF Truthy(userAddress) THEN formatAddress(userAddress[1]) ELSE ""

(***************************************************************************)
(* The state after construction, and the steps.                            *)
(***************************************************************************)
NoObs == Obs("construct", 0, 0, <<>>, Null)
FmtIdle == [input |-> "", out |-> Null, again |-> Null]

\* a freshly loaded page: App constructed, its mount effect not yet run
Constructed ==
    /\ started = FALSE
    /\ isLoggedIn = FALSE
    /\ userAddress = Null
    /\ isConnecting = FALSE
    /\ loginError = Null
    /\ connectPromise = Idle
    /\ inFlight = 0
    /\ connectAnswer = <<>>
    /\ cw = Idle
    /\ homeMounted = FALSE
    /\ home = HomeInitial
    /\ ethFetch = Idle
    /\ usdcFetch = Idle
    /\ obs = NoObs

Init ==
    /\ ethereum \in ProviderStates
    /\ localStorage \in {Null} \cup { Some(a) : a \in PersistedAddresses }
    /\ Constructed
    /\ lastSessionOp = "none"
    /\ fmt = FmtIdle

\* App's mount effect: read the persisted address, restore the session
Startup ==
    /\ ~started
    /\ started' = TRUE
    /\ LET s == startupEffect(localStorage) IN
        /\ isLoggedIn' = s.isLoggedIn
        /\ userAddress' = s.userAddress
        /\ obs' = Obs("startup", s.checks, s.requests, <<>>, Null)
    /\ UNCHANGED <<ethereum, localStorage, loginVars, cw, homeVars, lastSessionOp, fmt>>

\* a click on LoginPage's sign-in button (disabled while isConnecting)
SignInClick ==
    /\ started
    /\ View = "login"
    /\ ~signInDisabled(isConnecting)
    /\ inFlight < MaxInFlight
    /\ LET b == signInBegin(ethereum, isConnecting) IN
        /\ isConnecting' = b.isConnecting
        /\ loginError' = b.error
        /\ connectPromise' = b.promise
        /\ inFlight' = inFlight + b.requests
        /\ connectAnswer' = <<>>
        /\ obs' = Obs("signIn", b.checks, b.requests, <<>>, Null)
    /\ UNCHANGED <<ethereum, localStorage, appVars, cw, homeVars, lastSessionOp, fmt>>

\* the provider answers the handler's connect request: connectWallet's
\* continuation consumes the answer and settles the promise the handler awaits
SignInAnswered ==
    /\ started
    /\ connectPromise.state = "pending"
    /\ \E resp \in ConnectResponses :
        /\ connectPromise' = connectWalletSettle(resp)
        /\ connectAnswer' = <<resp>>
        /\ obs' = Obs("signInAnswered", 0, 0, <<resp>>, Null)
    /\ inFlight' = inFlight - 1
    /\ UNCHANGED <<ethereum, localStorage, appVars, isConnecting, loginError, cw,
                   homeVars, lastSessionOp, fmt>>

\* the handler's continuation, a later turn than the one that settled
\* connectWallet()
SignInSettle ==
    /\ started
    /\ Settled(connectPromise)
    /\ LET r == signInSettle(connectPromise, loginError) IN
        /\ IF r.onLoginSuccess # Null
           THEN LET s == handleLoginSuccess(r.onLoginSuccess[1]) IN
                /\ isLoggedIn' = s.isLoggedIn
                /\ userAddress' = s.userAddress
                /\ localStorage' = s.stored
                /\ lastSessionOp' = "login"
           ELSE UNCHANGED <<isLoggedIn, userAddress, localStorage, lastSessionOp>>
        /\ loginError' = r.error
        /\ isConnecting' = r.isConnecting
        /\ connectPromise' = Idle
        /\ connectAnswer' = <<>>
        /\ obs' = Obs("signInSettle", 0, 0, connectAnswer, r.onLoginSuccess)
    /\ UNCHANGED inFlight
    /\ UNCHANGED <<ethereum, started, cw, homeVars, fmt>>

\* HomePage's two mount effects: fetchBalance() and fetchUSDCBalance() up to
\* their awaits
HomeMount ==
    /\ started
    /\ View = "home"
    /\ ~homeMounted
    /\ homeMounted' = TRUE
    /\ home' = fetchUSDCBalanceBegin(fetchBalanceBegin(home))
    /\ ethFetch' = getBalanceBegin(ethereum)
    /\ usdcFetch' = getUSDCBalanceBegin(ethereum)
    /\ obs' = Obs("homeMount", 2,
                  (IF getBalanceBegin(ethereum).state = "pending" THEN 1 ELSE 0)
                  + (IF getUSDCBalanceBegin(ethereum).state = "pending" THEN 1 ELSE 0),
                  <<>>, Null)
    /\ UNCHANGED <<ethereum, localStorage, appVars, loginVars, cw, lastSessionOp, fmt>>

\* the provider library answers: getBalance's continuation settles the promise
\* fetchBalance awaits
GetBalanceAnswered ==
    /\ homeMounted
    /\ ethFetch.state = "pending"
    /\ \E resp \in EthResponses :
        /\ ethFetch' = getBalanceSettle(resp)
        /\ obs' = Obs("getBalanceAnswered", 0, 0, <<resp>>, Null)
    /\ UNCHANGED <<ethereum, localStorage, appVars, loginVars, cw, homeMounted, home,
                   usdcFetch, lastSessionOp, fmt>>

\* fetchBalance's continuation, a later turn than the one that settled getBalance()
FetchBalanceSettle ==
    /\ homeMounted
    /\ Settled(ethFetch)
    /\ home' = fetchBalanceSettle(home, ethFetch)
    /\ obs' = Obs("fetchBalanceSettle", 0, 0, <<>>, Null)
    /\ ethFetch' = Idle
    /\ UNCHANGED <<ethereum, localStorage, appVars, loginVars, cw, homeMounted,
                   usdcFetch, lastSessionOp, fmt>>

\* the provider library answers: getUSDCBalance's continuation settles the
\* promise fetchUSDCBalance awaits
GetUSDCBalanceAnswered ==
    /\ homeMounted
    /\ usdcFetch.state = "pending"
    /\ \E resp \in UsdcResponses :
        /\ usdcFetch' = getUSDCBalanceSettle(resp)
        /\ obs' = Obs("getUSDCBalanceAnswered", 0, 0, <<resp>>, Null)
    /\ UNCHANGED <<ethereum, localStorage, appVars, loginVars, cw, homeMounted, home,
                   ethFetch, lastSessionOp, fmt>>

\* fetchUSDCBalance's continuation, a later turn than the one that settled
\* getUSDCBalance()
FetchUSDCBalanceSettle ==
    /\ homeMounted
    /\ Settled(usdcFetch)
    /\ home' = fetchUSDCBalanceSettle(home, usdcFetch)
    /\ obs' = Obs("fetchUSDCBalanceSettle", 0, 0, <<>>, Null)
    /\ usdcFetch' = Idle
    /\ UNCHANGED <<ethereum, localStorage, appVars, loginVars, cw, homeMounted,
                   ethFetch, lastSessionOp, fmt>>

\* a click on HomePage's logout button; HomePage is unmounted and what its
\* outstanding fetches later deliver is dropped
Logout ==
    /\ started
    /\ View = "home"
    /\ LET s == handleLogout IN
        /\ isLoggedIn' = s.isLoggedIn
        /\ userAddress' = s.userAddress
        /\ localStorage' = s.stored
    /\ lastSessionOp' = "logout"
    /\ homeMounted' = FALSE
    /\ home' = HomeInitial
    /\ ethFetch' = Idle
    /\ usdcFetch' = Idle
    /\ obs' = Obs("logout", 0, 0, <<>>, Null)
    /\ UNCHANGED <<ethereum, started, loginVars, cw, fmt>>

\* the page is loaded anew: a new App instance over the same persistent store;
\* the wallet extension may have been added or removed in between
Reload ==
    /\ started
    /\ ethereum' \in ProviderStates
    /\ started' = FALSE
    /\ isLoggedIn' = FALSE
    /\ userAddress' = Null
    /\ isConnecting' = FALSE
    /\ loginError' = Null
    /\ connectPromise' = Idle
    /\ inFlight' = 0
    /\ connectAnswer' = <<>>
    /\ cw' = Idle
    /\ homeMounted' = FALSE
    /\ home' = HomeInitial
    /\ ethFetch' = Idle
    /\ usdcFetch' = Idle
    /\ obs' = NoObs
    /\ UNCHANGED <<localStorage, lastSessionOp, fmt>>

\* connectWallet() called by a client of lib/web3 other than LoginPage
ConnectWalletCall ==
    /\ cw.state # "pending"
    /\ cw' = connectWalletBegin(ethereum)
    /\ obs' = Obs("connectWallet", 1, connectWalletRequests(ethereum), <<>>, Null)
    /\ UNCHANGED <<ethereum, localStorage, appVars, loginVars, homeVars, lastSessionOp, fmt>>

\* the provider answers that client's request
ConnectWalletAnswered ==
    /\ cw.state = "pending"
    /\ \E resp \in ConnectResponses :
        /\ cw' = connectWalletSettle(resp)
        /\ obs' = Obs("connectWalletSettle", 0, 0, <<resp>>, Null)
    /\ UNCHANGED <<ethereum, localStorage, appVars, loginVars, homeVars, lastSessionOp, fmt>>

Next ==
    \/ Startup
    \/ SignInClick
    \/ SignInAnswered
    \/ SignInSettle
    \/ HomeMount
    \/ GetBalanceAnswered
    \/ FetchBalanceSettle
    \/ GetUSDCBalanceAnswered
    \/ FetchUSDCBalanceSettle
    \/ Logout
    \/ Reload
    \/ ConnectWalletCall
    \/ ConnectWalletAnswered

Spec == Init /\ [][Next]_vars

\* once connectWallet() has settled, the handler's continuation runs: it is
\* queued as a microtask, and the queue is emptied before anything else happens
SpecLive == Init /\ [][Next]_vars /\ WF_vars(SignInSettle)

(***************************************************************************)
(* formatAddress on its own: every string over a two-character alphabet up *)
(* to MaxLen characters is formatted, and the result formatted again.      *)
(***************************************************************************)
FmtAlphabet == {"0", "."}

RECURSIVE StringsOfLen(_)
StringsOfLen(n) ==
    IF n = 0 THEN {""}
    ELSE { s \o c : s \in StringsOfLen(n - 1), c \in FmtAlphabet }
FmtInputs == UNION { StringsOfLen(n) : n \in 0..MaxLen }

InitFmt ==
    /\ ethereum = "undefined"
    /\ localStorage = Null
    /\ Constructed
    /\ lastSessionOp = "none"
    /\ fmt \in { [input |-> s, out |-> Null, again |-> Null] : s \in FmtInputs }

FormatOnce ==
    /\ fmt.out = Null
    /\ fmt' = [fmt EXCEPT !.out = Some(formatAddress(fmt.input))]
    /\ UNCHANGED <<ethereum, localStorage, appVars, loginVars, cw, homeVars, obs, lastSessionOp>>

FormatAgain ==
    /\ fmt.out # Null
    /\ fmt.again = Null
    /\ fmt' = [fmt EXCEPT !.again = Some(formatAddress(fmt.out[1]))]
    /\ UNCHANGED <<ethereum, localStorage, appVars, loginVars, cw, homeVars, obs, lastSessionOp>>

NextFmt == FormatOnce \/ FormatAgain

SpecFmt == InitFmt /\ [][NextFmt]_vars

(***************************************************************************)
(* Properties.                                                             *)
(***************************************************************************)
\* the answer the latest step consumed, when it consumed one
Answered == obs.answer # <<>>
Answer == obs.answer[1]
\* an answer connectWallet succeeds on: a non-empty account list
IsAccounts(a) == a.kind = "accounts" /\ Len(a.accounts) > 0
\* s ends with t
EndsWith(s, t) == Len(s) >= Len(t) /\ SubSeq(s, Len(s) - Len(t) + 1, Len(s)) = t

\* C1: authenticated implies address is present: isLoggedIn = true implies
\* userAddress is a non-null, non-empty string.
C1_AuthenticatedImpliesAddress == isLoggedIn => Truthy(userAddress)

\* C2: with no wallet provider present every call of connectWallet is rejected
\* with the "not installed" error and issues no provider request; the sign-in
\* handler then issues no request either, awaits nothing, shows its own "not
\* installed" message and leaves isConnecting false.
C2_NoProviderNoRequest ==
    /\ (obs.op = "connectWallet" /\ ethereum = "undefined") =>
            /\ cw = Rejected(ErrorOf(MsgInstallConnect))
            /\ obs.requests = 0
    /\ (obs.op = "signIn" /\ ethereum = "undefined") =>
            /\ obs.requests = 0
            /\ connectPromise = Idle
            /\ loginError = Some(MsgInstallLogin)
    /\ ethereum = "undefined" =>
            /\ ~isConnecting
            /\ cw.state # "pending"
            /\ connectPromise.state # "pending"

C2_Witness ==
    /\ ethereum = "undefined"
    /\ obs.op = "signIn"
    /\ loginError = Some(MsgInstallLogin)
    /\ cw = Rejected(ErrorOf(MsgInstallConnect))

\* C3: on an empty account list connectWallet returns no address and fails with
\* an error that differs from the error it fails with on any fault raised by
\* the provider itself.
C3_NoAccountsDistinguishable ==
    (obs.op = "connectWalletSettle" /\ Answer.kind = "accounts"
        /\ Len(Answer.accounts) = 0) =>
            /\ cw.state = "rejected"
            /\ \A f \in Faults : connectWalletSettle(FaultAnswer(f)) # cw

\* C4: on a non-empty account list connectWallet resolves with the first element
\* of the list, and the login flow puts that element in userAddress and in the
\* persistent store.
C4_FirstAccount ==
    /\ (obs.op = "connectWalletSettle" /\ IsAccounts(Answer)) =>
            cw = Resolved(Answer.accounts[1])
    /\ (obs.op = "signInSettle" /\ Answered /\ IsAccounts(Answer)) =>
            /\ obs.onLoginSuccess = Some(Answer.accounts[1])
            /\ isLoggedIn
            /\ userAddress = Some(Answer.accounts[1])
            /\ localStorage = Some(Answer.accounts[1])

C4_Witness ==
    /\ obs.op = "signInSettle"
    /\ Answered
    /\ Answer.kind = "accounts"
    /\ Answer.accounts = <<Addr1, Addr2>>
    /\ userAddress = Some(Addr1)
    /\ localStorage = Some(Addr1)

\* C5: for every fault the provider raises during the connect request, an Error
\* instance or not, the login view ends with a non-null error message that
\* carries the fault's message.
C5_FaultMessagePassedThrough ==
    (obs.op = "signInSettle" /\ Answered /\ Answer.kind = "fault") =>
        /\ loginError # Null
        /\ EndsWith(loginError[1], Answer.fault[1].message)

\* C6: startup with an address in the persistent store makes the session
\* authenticated with that address, and the step makes no presence check and no
\* provider request, with or without a provider.
C6_RestoreWithoutProvider ==
    (obs.op = "startup" /\ Truthy(localStorage)) =>
        /\ isLoggedIn
        /\ userAddress = localStorage
        /\ obs.checks = 0
        /\ obs.requests = 0

C6_Witness ==
    /\ obs.op = "startup"
    /\ ethereum = "undefined"
    /\ localStorage = Some(Addr1)
    /\ isLoggedIn
    /\ userAddress = Some(Addr1)

\* C7: handleLogout clears the flag, the address and the persisted key, and a
\* fresh startup over a store whose latest session operation was a logout
\* yields authenticated = false and address = null.
C7_LogoutThenStartup ==
    /\ obs.op = "logout" =>
            (~isLoggedIn /\ userAddress = Null /\ localStorage = Null)
    /\ (obs.op = "startup" /\ lastSessionOp = "logout") =>
            (~isLoggedIn /\ userAddress = Null /\ localStorage = Null)

C7_Witness ==
    /\ obs.op = "startup"
    /\ lastSessionOp = "logout"
    /\ ~isLoggedIn
    /\ userAddress = Null

\* the latest step was a connect attempt of the login view that failed
FailedConnect(o) ==
    /\ o.op = "signInSettle"
    /\ \/ o.answer = <<>>
       \/ ~IsAccounts(o.answer[1])

\* C8: a connect attempt that fails (no provider, no accounts, a provider fault)
\* leaves isLoggedIn, userAddress and the persisted key unchanged and does not
\* call onLoginSuccess; the persisted key changes only in a successful connect
\* and in a logout.
C8_FailedConnectFrame ==
    [][ /\ (FailedConnect(obs') \/ obs'.op = "signIn" \/ obs'.op = "signInAnswered") =>
              /\ isLoggedIn' = isLoggedIn
              /\ userAddress' = userAddress
              /\ localStorage' = localStorage
              /\ obs'.onLoginSuccess = Null
        /\ localStorage' # localStorage =>
              \/ obs'.op = "logout"
              \/ obs'.op = "signInSettle" /\ obs'.onLoginSuccess # Null
      ]_vars

C8_Witness ==
    /\ FailedConnect(obs)
    /\ Answered
    /\ Answer.kind = "fault"
    /\ loginError # Null
    /\ ~isLoggedIn
    /\ userAddress = Null
    /\ localStorage = Null
    /\ lastSessionOp = "logout"

\* C9: a completion of the native-balance fetch changes nothing of the token
\* card (value, loading flag, error, outstanding fetch), and a completion of the
\* token-balance fetch changes nothing of the native card.
C9_FetchesIndependent ==
    [][ /\ obs'.op \in {"getBalanceAnswered", "fetchBalanceSettle"} =>
              /\ home'.usdcBalance = home.usdcBalance
              /\ home'.isLoadingUsdc = home.isLoadingUsdc
              /\ home'.usdcError = home.usdcError
              /\ usdcFetch' = usdcFetch
        /\ obs'.op \in {"getUSDCBalanceAnswered", "fetchUSDCBalanceSettle"} =>
              /\ home'.balance = home.balance
              /\ home'.isLoadingBalance = home.isLoadingBalance
              /\ home'.error = home.error
              /\ ethFetch' = ethFetch
      ]_vars

C9_Witness ==
    /\ obs.op = "fetchBalanceSettle"
    /\ home.error # Null
    /\ home.balance = Null
    /\ ~home.isLoadingBalance
    /\ home.usdcBalance = Some("1.50")
    /\ home.usdcError = Null
    /\ ~home.isLoadingUsdc

\* C10: formatAddress returns an input shorter than 10 characters unchanged and
\* otherwise 13 characters: the first 6, "...", the last 4; formatting its own
\* output returns that output.
C10_FormatAddress ==
    /\ fmt.out # Null =>
        LET a == fmt.input
            o == fmt.out[1]
        IN /\ Len(a) < 10 => o = a
           /\ Len(a) >= 10 =>
                /\ Len(o) = 13
                /\ SubSeq(o, 1, 6) = SubSeq(a, 1, 6)
                /\ SubSeq(o, 7, 9) = "..."
                /\ SubSeq(o, 10, 13) = SubSeq(a, Len(a) - 3, Len(a))
    /\ fmt.again # Null => fmt.again = fmt.out

C10_Witness ==
    /\ fmt.again # Null
    /\ Len(fmt.input) > 10
    /\ fmt.out[1] # fmt.input
    /\ fmt.again = fmt.out

\* C11: isConnecting is true exactly while a connectWallet() call of the sign-in
\* handler is outstanding, that is from the click until the handler resumes after
\* its await; the provider's request is unanswered only within that time. Once
\* the provider has answered (accounts, an empty list or a fault) the handler
\* eventually resumes, and the step in which it does sets isConnecting to false.
\* While isConnecting is true the button is disabled and no further request is
\* issued, so at most one connect request is in flight.
C11_ConnectingWhileOutstanding ==
    /\ [](isConnecting <=> connectPromise.state # "idle")
    /\ [](inFlight = 1 <=> connectPromise.state = "pending")
    /\ [](isConnecting => signInDisabled(isConnecting))
    /\ [](inFlight <= 1)
    /\ [][ /\ obs'.op = "signInSettle" =>
                (~isConnecting' /\ inFlight' = 0 /\ connectPromise' = Idle)
           /\ isConnecting => inFlight' <= inFlight
       ]_vars
    /\ (Settled(connectPromise) ~> ~isConnecting)

C11_Witness ==
    /\ obs.op = "signInSettle"
    /\ Answered
    /\ Answer.kind = "fault"
    /\ ~isConnecting
    /\ inFlight = 0
    /\ View = "login"
    /\ loginError # Null

====
